---- MODULE Spec2Model ----
(***************************************************************************)
(* A model of gh_pypi: a WSGI application that serves a PyPI "simple       *)
(* index" of GitHub repositories.  Modelled are the request pipeline of    *)
(* WsgiApplication.__call__ (application.py), the repository resolver of   *)
(* GitHub.get_installable_repositories (github.py) and the cachelib        *)
(* FileSystemCache entry stored under CACHE_KEY.                           *)
(*                                                                         *)
(* Python strings that the code takes apart (names, credentials) are       *)
(* sequences of one-character strings; opaque ones (logins, tags) are      *)
(* TLA+ strings.  A Python dict is a sequence of [key, value] records in   *)
(* insertion order.                                                        *)
(***************************************************************************)
EXTENDS Integers, Sequences, FiniteSets, TLC

\* ------------------------------------------------------------------ bounds
\* Worker threads of the WSGI server that call the one application object.
NumThreads == 2
\* The clock stops at MaxTime seconds and advances by TickStep seconds.
MaxTime == 1350
TickStep == 450
\* Requests sent in a run in which threads overlap.
MaxCalls == 2
\* A repository has at most MaxReleases releases, created at 1..MaxCreated.
MaxReleases == 3
MaxCreated == 3

\* ------------------------------------------------------- program constants
ASSET_FILENAME == "pypi.tar.gz"
CACHE_KEY == "repositories"
\* FileSystemCache(default_timeout=900)
default_timeout == 900

\* --------------------------------------------------------- string helpers
\* str.strip(): leading and trailing whitespace removed.
RECURSIVE LStrip(_)
LStrip(s) == IF s # <<>> /\ Head(s) = " " THEN LStrip(Tail(s)) ELSE s

RECURSIVE RStrip(_)
RStrip(s) ==
    IF s # <<>> /\ s[Len(s)] = " " THEN RStrip(SubSeq(s, 1, Len(s) - 1)) ELSE s

Strip(s) == RStrip(LStrip(s))

\* Code points of the characters the model uses.
Ord(c) ==
    CASE c = " " -> 32
      [] c = "-" -> 45
      [] c = "A" -> 65
      [] c = "B" -> 66
      [] c = "Z" -> 90
      [] c = "_" -> 95
      [] c = "a" -> 97
      [] c = "b" -> 98
      [] c = "n" -> 110
      [] c = "p" -> 112
      [] c = "t" -> 116
      [] c = "y" -> 121
      [] c = "z" -> 122

\* str.lower()
LowerChar(c) ==
    CASE c = "A" -> "a"
      [] c = "B" -> "b"
      [] c = "Z" -> "z"
      [] OTHER -> c

Lower(s) == [i \in 1..Len(s) |-> LowerChar(s[i])]

\* key.replace('_', '-')
HyphenChar(c) == IF c = "_" THEN "-" ELSE c

ReplaceUnderscores(s) == [i \in 1..Len(s) |-> HyphenChar(s[i])]

\* Python's < on str: lexicographic by code point, a proper prefix is smaller.
RECURSIVE StrLess(_, _)
StrLess(s, t) ==
    IF t = <<>> THEN FALSE
    ELSE IF s = <<>> THEN TRUE
    ELSE IF Ord(Head(s)) # Ord(Head(t)) THEN Ord(Head(s)) < Ord(Head(t))
    ELSE StrLess(Tail(s), Tail(t))

\* ------------------------------------------------------------ Python dicts
EmptyDict == <<>>

Keys(d) == {d[i].key : i \in 1..Len(d)}

HasKey(d, k) == k \in Keys(d)

\* d[k], for a key the dict has.
Lookup(d, k) == d[CHOOSE i \in 1..Len(d) : d[i].key = k].value

\* d[k] = v: a new key goes last, an old key keeps its place.
DictSet(d, k, v) ==
    IF HasKey(d, k)
    THEN [i \in 1..Len(d) |-> IF d[i].key = k THEN [key |-> k, value |-> v] ELSE d[i]]
    ELSE Append(d, [key |-> k, value |-> v])

\* ------------------------------------------------------ the upstream API
\* Python's None for a credential, a session or a user.
NoAuth == [kind |-> "none", username |-> <<>>, password |-> <<>>, token |-> <<>>]
NoUser == "None"

BasicAuth(u, p) == [kind |-> "basic", username |-> u, password |-> p, token |-> <<>>]
TokenAuth(t) == [kind |-> "token", username |-> <<>>, password |-> <<>>, token |-> t]

\* The accounts GitHub knows: user "a" logs in with a password, user "b" with
\* a personal access token; "o" is an organization whose only member is "a".
LoginOf(api) ==
    CASE api = BasicAuth(<<"a">>, <<"p">>) -> "a"
      [] api = TokenAuth(<<"t">>) -> "b"
      [] OTHER -> NoUser

OrganizationsOf(login) == IF login = "a" THEN <<"o">> ELSE <<>>

\* Every repository that may exist upstream, in the order GitHub lists them.
\* collab: the users who are collaborators; also: the identities whose
\* scoped code search returns the repository although they do not own it.
Repo(owner, name, private, setup, collab, also) ==
    [owner |-> owner, name |-> name, private |-> private, setup |-> setup,
     collab |-> collab, also |-> also]

Universe ==
    << Repo("a", <<"a", "-", "b">>, FALSE, TRUE, {}, {}),
       Repo("a", <<"a", "_", "b">>, FALSE, TRUE, {}, {}),
       Repo("o", <<"a", "-", "b">>, FALSE, TRUE, {}, {}),
       Repo("c", <<"Z">>, FALSE, TRUE, {"a"}, {}),
       Repo("d", <<"y">>, FALSE, TRUE, {"a"}, {"c"}),
       Repo("a", <<"p">>, TRUE, TRUE, {}, {}),
       Repo("a", <<"n">>, FALSE, FALSE, {}, {}) >>

RepoIds == 1..Len(Universe)

\* repository.full_name
FullName(r) == <<r.owner, "/">> \o r.name

\* The repositories of `world` (a set of RepoIds) in listing order.
RECURSIVE ListFrom(_, _)
ListFrom(i, world) ==
    IF i > Len(Universe) THEN <<>>
    ELSE (IF i \in world THEN <<Universe[i]>> ELSE <<>>) \o ListFrom(i + 1, world)

\* GET /user/repos?type=all as `login`: owned, organization and
\* collaborator repositories.
ApiRepositories(world, login) ==
    LET Keep(r) == \/ r.owner = login
                   \/ \E k \in 1..Len(OrganizationsOf(login)) :
                          r.owner = OrganizationsOf(login)[k]
                   \/ login \in r.collab
    IN  SelectSeq(ListFrom(1, world), Keep)

\* Code search "filename:setup.py path:/ repo:<full name> ..." over
\* `candidates`: one result for each candidate that has the marker file.
ApiSearchCodeRepos(candidates) == SelectSeq(candidates, LAMBDA r : r.setup)

\* Code search "filename:setup.py path:/ user:<name>" (or org:<name>) as
\* `login`: the public repositories the scope matches, and the private ones
\* `login` can read.
ApiSearchCodeScope(world, login, name) ==
    LET Readable(r) == \/ ~r.private
                       \/ r.owner = login
                       \/ login \in r.collab
        Keep(r) == r.setup /\ Readable(r) /\ (r.owner = name \/ name \in r.also)
    IN  SelectSeq(ListFrom(1, world), Keep)

\* ------------------------------------------------------------- github.py
Organization(name) == [type |-> "Organization", name |-> name]
User(name) == [type |-> "User", name |-> name]

\* repos.ShortRepository(json, session): repository data bound to a session.
ShortRepository(json, session) == [json |-> json, session |-> session]

\* What a call ends with: a returned value, or a raised exception.
Returned(v) == [kind |-> "ok", value |-> v, description |-> <<>>]
Raised(exception, description) ==
    [kind |-> exception, value |-> <<>>, description |-> description]

\* The upstream calls of the resolver, in the order the code makes them.
ApiCalls == {"organizations", "repositories", "search_code", "search_scope"}
Faults == ApiCalls \cup {"none"}

\* A call raises a gh_exc.GitHubException when GitHub rejects the session's
\* credential, or when the call is the one that `fault` makes fail.
ApiFails(call, api, fault) == LoginOf(api) = NoUser \/ fault = call

\* tuple(repositories.values()) of lines 86-92: the first repository of each
\* full name, in order of first appearance.
RECURSIVE DedupeByFullName(_, _)
DedupeByFullName(results, repositories) ==
    IF results = <<>> THEN [i \in 1..Len(repositories) |-> repositories[i].value]
    ELSE LET repository == Head(results)
         IN  DedupeByFullName(
                 Tail(results),
                 IF ~HasKey(repositories, FullName(repository.json))
                 THEN DictSet(repositories, FullName(repository.json), repository)
                 ELSE repositories)

get_current_user_package_repositories(api, world, fault) ==
    IF ApiFails("repositories", api, fault) \/ ApiFails("search_code", api, fault)
    THEN Raised("GitHubException", <<>>)
    ELSE LET available_repositories == ApiRepositories(world, LoginOf(api))
             code_search_results ==
                 [i \in 1..Len(ApiSearchCodeRepos(available_repositories)) |->
                     ShortRepository(ApiSearchCodeRepos(available_repositories)[i], api)]
         IN  Returned(DedupeByFullName(code_search_results, EmptyDict))

get_user_package_repositories(api, world, username, fault) ==
    IF ApiFails("search_scope", api, fault)
    THEN Raised("BadRequest", <<"Unable to get list of repositories from GitHub API">>)
    ELSE LET repositories ==
                 [i \in 1..Len(ApiSearchCodeScope(world, LoginOf(api), username)) |->
                     ShortRepository(ApiSearchCodeScope(world, LoginOf(api), username)[i], api)]
         IN  Returned(SelectSeq(repositories, LAMBDA repo : repo.json.owner = username))

get_organization_package_repositories(api, world, organization, fault) ==
    IF ApiFails("search_scope", api, fault)
    THEN Raised("BadRequest", <<"Unable to get list of repositories from GitHub API">>)
    ELSE LET repositories ==
                 [i \in 1..Len(ApiSearchCodeScope(world, LoginOf(api), organization)) |->
                     ShortRepository(ApiSearchCodeScope(world, LoginOf(api), organization)[i], api)]
         IN  Returned(SelectSeq(repositories, LAMBDA repo : repo.json.owner = organization))

\* checker of lines 140-142: short name -> the repositories that carry it.
RECURSIVE GroupByName(_, _)
GroupByName(repositories, checker) ==
    IF repositories = <<>> THEN checker
    ELSE LET repo == Head(repositories)
             old == IF HasKey(checker, repo.json.name)
                    THEN Lookup(checker, repo.json.name) ELSE <<>>
         IN  GroupByName(Tail(repositories),
                         DictSet(checker, repo.json.name, Append(old, repo)))

\* A variant that reports a short name only from the third repository on.
_verify_conflicting_repos_lax(repositories) ==
    SelectSeq(GroupByName(repositories, EmptyDict), LAMBDA item : Len(item.value) > 2)

\* The conflicts of lines 144-146; the method raises when there are any.
_verify_conflicting_repos(repositories) ==
    SelectSeq(GroupByName(repositories, EmptyDict), LAMBDA item : Len(item.value) > 1)

\* ConflictingRepositoriesError.get_description: for each conflicting short
\* name, the full names of the repositories that carry it.
get_description(conflicts) ==
    [i \in 1..Len(conflicts) |->
        [name |-> conflicts[i].key,
         locations |-> [j \in 1..Len(conflicts[i].value) |->
                           FullName(conflicts[i].value[j].json)]]]

\* A variant that compares the short names as they are, case included.
RECURSIVE InsertSortedCaseSensitive(_, _)
InsertSortedCaseSensitive(sorted, item) ==
    IF sorted = <<>> THEN <<item>>
    ELSE IF StrLess(item.json.name, Head(sorted).json.name)
         THEN <<item>> \o sorted
         ELSE <<Head(sorted)>> \o InsertSortedCaseSensitive(Tail(sorted), item)

\* sorted(result, key=lambda item: item.name.lower()): a stable sort.
RECURSIVE InsertSorted(_, _)
InsertSorted(sorted, item) ==
    IF sorted = <<>> THEN <<item>>
    ELSE IF StrLess(Lower(item.json.name), Lower(Head(sorted).json.name))
         THEN <<item>> \o sorted
         ELSE <<Head(sorted)>> \o InsertSorted(Tail(sorted), item)

RECURSIVE SortedByName(_)
SortedByName(result) ==
    IF result = <<>> THEN <<>>
    ELSE InsertSorted(SortedByName(SubSeq(result, 1, Len(result) - 1)),
                      result[Len(result)])

\* {item.name: item for item in ...}
RECURSIVE DictByName(_, _)
DictByName(items, d) ==
    IF items = <<>> THEN d
    ELSE DictByName(Tail(items), DictSet(d, Head(items).json.name, Head(items)))

\* The loop of lines 59-63 over the configured identities from index i on.
RECURSIVE SearchOwners(_, _, _, _, _, _, _)
SearchOwners(i, users_and_organizations, accessible, api, world, fault, result) ==
    IF i > Len(users_and_organizations) THEN Returned(result)
    ELSE LET owner == users_and_organizations[i]
             found == IF owner.type = "Organization"
                      THEN get_organization_package_repositories(api, world, owner.name, fault)
                      ELSE get_user_package_repositories(api, world, owner.name, fault)
         IN  IF \E k \in 1..Len(accessible) : accessible[k] = owner
             THEN SearchOwners(i + 1, users_and_organizations, accessible, api, world,
                               fault, result)
             ELSE IF found.kind # "ok" THEN found
             ELSE SearchOwners(i + 1, users_and_organizations, accessible, api, world,
                               fault, result \o found.value)

\* The tuple `result` of lines 49-63, before the conflict check.
CollectRepositories(api, current_user, users_and_organizations, world, fault) ==
    IF ApiFails("organizations", api, fault) THEN Raised("GitHubException", <<>>)
    ELSE LET organizations == OrganizationsOf(LoginOf(api))
             accessible_users_and_organizations ==
                 <<User(current_user)>>
                 \o [k \in 1..Len(organizations) |-> Organization(organizations[k])]
             own == get_current_user_package_repositories(api, world, fault)
         IN  IF own.kind # "ok" THEN own
             ELSE SearchOwners(1, users_and_organizations,
                               accessible_users_and_organizations, api, world, fault,
                               own.value)

get_installable_repositories(api, current_user, users_and_organizations, world, fault) ==
    LET result == CollectRepositories(api, current_user, users_and_organizations,
                                      world, fault)
        conflicts == _verify_conflicting_repos(result.value)
    IN  IF result.kind # "ok" THEN result
        ELSE IF conflicts # <<>>
        THEN Raised("ConflictingRepositoriesError", get_description(conflicts))
        ELSE Returned(DictByName(SortedByName(result.value), EmptyDict))

\* *users_and_organizations given to WsgiApplication(...).
ConfiguredIdentities == <<User("a"), Organization("o"), User("c")>>

\* ---------------------------------------------------- releases and assets
Asset(name, download_url) == [name |-> name, download_url |-> download_url]
Release(tag_name, created_at, name, assets) ==
    [tag_name |-> tag_name, created_at |-> created_at, name |-> name, assets |-> assets]

\* The releases GitHub holds for a repository, in the order it returns them.
ReleaseData(json) ==
    CASE FullName(json) = <<"a", "/", "a", "-", "b">> ->
             << Release("v2", 2, "second", <<Asset("other.zip", "u2")>>),
                Release("v1", 1, "first",
                        << Asset("notes.txt", "u0"), Asset(ASSET_FILENAME, "u1"),
                           Asset(ASSET_FILENAME, "u1b") >>) >>
      [] FullName(json) = <<"a", "/", "a", "_", "b">> ->
             << Release("v1", 5, "third", <<Asset(ASSET_FILENAME, "u3")>>) >>
      [] FullName(json) = <<"a", "/", "p">> ->
             << Release("v1", 3, "late", <<Asset(ASSET_FILENAME, "u5")>>),
                Release("v0", 2, "middle", <<>>),
                Release("v1", 1, "early", <<Asset(ASSET_FILENAME, "u4")>>) >>
      [] OTHER -> <<>>

\* repository.releases(): listed with the session the handle is bound to;
\* GitHub rejects an unknown credential and hides a private repository from
\* a user who cannot read it.
ApiReleases(repository) ==
    LET login == LoginOf(repository.session)
        json == repository.json
    IN  IF \/ login = NoUser
           \/ json.private /\ json.owner # login /\ login \notin json.collab
        THEN Raised("GitHubException", <<>>)
        ELSE Returned(ReleaseData(json))

\* requests.get(asset_url): GitHub serves the asset when the access_token is
\* a valid token.
ApiAssetStatus(asset_url) ==
    IF LoginOf(TokenAuth(asset_url.access_token)) # NoUser THEN 200 ELSE 404

\* -------------------------------------------------------- application.py
\* request.authorization: the Basic-Auth header, when the request has one.
Authorization(username, password) ==
    [present |-> TRUE, username |-> username, password |-> password]
NoAuthorization == [present |-> FALSE, username |-> <<>>, password |-> <<>>]

\* A variant that does not strip the username and the password.
_get_authorization_unstripped(authorization) ==
    LET auth == IF authorization.present THEN authorization ELSE NoAuthorization
    IN  IF auth.username = <<>> THEN NoAuth
        ELSE IF auth.password # <<>>
             THEN BasicAuth(auth.username, auth.password)
             ELSE TokenAuth(auth.username)

\* The value the method stores in self._auth; NoAuth when it raises
\* Unauthorized instead.
_get_authorization(authorization) ==
    LET auth == IF authorization.present THEN authorization ELSE NoAuthorization
        username == Strip(auth.username)
        password == Strip(auth.password)
    IN  IF username = <<>> THEN NoAuth
        ELSE IF username # <<>> /\ password # <<>>
             THEN BasicAuth(username, password)
             ELSE TokenAuth(username)

\* '{scheme}://{token}@{domain}' or
\* '{scheme}://{username}:{password}@{domain}'.
_get_request_domain(auth) ==
    [scheme |-> "http",
     userinfo |-> IF auth.kind = "token" THEN auth.token
                  ELSE auth.username \o <<":">> \o auth.password,
     domain |-> "host"]

\* A variant that always appends the password.
AccessTokenPassword(auth) == auth.password

\* self._auth.get('token', self._auth.get('password'))
AccessToken(auth) == IF auth.kind = "token" THEN auth.token ELSE auth.password

\* repositories_with_aliases of lines 235-238.
RECURSIVE WithAliases(_, _)
WithAliases(items, repositories_with_aliases) ==
    IF items = <<>> THEN repositories_with_aliases
    ELSE LET key == Head(items).key
             value == Head(items).value
         IN  WithAliases(Tail(items),
                         DictSet(DictSet(repositories_with_aliases, key, value),
                                 ReplaceUnderscores(key), value))

\* A variant that leaves the releases in the order upstream returned them.
InsertByCreationUnsorted(sorted, item) == Append(sorted, item)

\* sorted(repository.releases(), key=lambda item: item.created_at)
RECURSIVE InsertByCreation(_, _)
InsertByCreation(sorted, item) ==
    IF sorted = <<>> THEN <<item>>
    ELSE IF item.created_at < Head(sorted).created_at
         THEN <<item>> \o sorted
         ELSE <<Head(sorted)>> \o InsertByCreation(Tail(sorted), item)

RECURSIVE SortedByCreation(_)
SortedByCreation(releases) ==
    IF releases = <<>> THEN <<>>
    ELSE InsertByCreation(SortedByCreation(SubSeq(releases, 1, Len(releases) - 1)),
                          releases[Len(releases)])

\* collections.OrderedDict((item.tag_name, item) for item in ...)
RECURSIVE DictByTag(_, _)
DictByTag(items, d) ==
    IF items = <<>> THEN d
    ELSE DictByTag(Tail(items), DictSet(d, Head(items).tag_name, Head(items)))

\* repo_releases of lines 245-248: the releases sorted by creation time and
\* keyed by tag.
BuildReleases(releases) == DictByTag(SortedByCreation(releases), EmptyDict)

\* The repository _get_releases picks for a name; raises NotFound on KeyError.
FindRepository(repositories, repository_name) ==
    LET repositories_with_aliases == WithAliases(repositories, EmptyDict)
    IN  IF HasKey(repositories_with_aliases, repository_name)
        THEN Returned(<<Lookup(repositories_with_aliases, repository_name)>>)
        ELSE Raised("NotFound", <<>>)

\* The tag -> release dict; the empty dict stands for None.
_get_releases(repositories, repository_name) ==
    LET found == FindRepository(repositories, repository_name)
        listed == ApiReleases(found.value[1])
    IN  IF found.kind # "ok" THEN found
        ELSE IF listed.kind # "ok" THEN listed
        ELSE Returned(BuildReleases(listed.value))

\* A variant that takes the last asset named ASSET_FILENAME.
_find_release_download_link_last(release_instance, auth) ==
    LET named == SelectSeq(release_instance.assets, LAMBDA asset : asset.name = ASSET_FILENAME)
    IN  IF named = <<>>
        THEN Raised("NotFound",
                    <<"Asset", ASSET_FILENAME, "not found in release", release_instance.name>>)
        ELSE Returned(<<[download_url |-> named[Len(named)].download_url,
                         access_token |-> AccessToken(auth)]>>)

\* The URL of the first asset named
\* ASSET_FILENAME, with the credential appended as access_token.
_find_release_download_link(release_instance, auth) ==
    LET named == SelectSeq(release_instance.assets, LAMBDA asset : asset.name = ASSET_FILENAME)
    IN  IF named = <<>>
        THEN Raised("NotFound",
                    <<"Asset", ASSET_FILENAME, "not found in release", release_instance.name>>)
        ELSE Returned(<<[download_url |-> named[1].download_url,
                         access_token |-> AccessToken(auth)]>>)

\* What the WSGI server sends: the response the application returned, or
\* its own 500 when the application raised something that is no
\* werkzeug HTTPException.
Response(status, body) ==
    [status |-> status, www_authenticate |-> "", body |-> body, exception |-> ""]

HttpStatus(exception) ==
    CASE exception = "BadRequest" -> 400
      [] exception = "Unauthorized" -> 401
      [] exception = "Forbidden" -> 403
      [] exception = "NotFound" -> 404
      [] exception = "ConflictingRepositoriesError" -> 503
      [] OTHER -> 500

IsHttpException(exception) == HttpStatus(exception) # 500

\* except exceptions.HTTPException as ex: response = ex (lines 110-111);
\* anything else leaves __call__ as an exception.
ErrorResponse(raised) ==
    [status |-> HttpStatus(raised.kind),
     www_authenticate |-> IF raised.kind = "Unauthorized"
                          THEN "Basic realm=\"Simple index\"" ELSE "",
     body |-> raised.description,
     exception |-> IF IsHttpException(raised.kind) THEN "" ELSE raised.kind]

NoResponse == Response(0, <<>>)

\* dispatch_index: one link per repository of the mapping.
dispatch_index(repositories, request_domain) ==
    Response(200,
             [i \in 1..Len(repositories) |->
                 [domain |-> request_domain,
                  endpoint |-> <<"repository", repositories[i].key>>,
                  name |-> FullName(repositories[i].value.json)]])

\* dispatch_repository with _get_repo_releases_links: one link per tag; when
\* there are no releases the links are None and joining them raises.
dispatch_repository(repositories, repository_name, request_domain) ==
    LET repo_releases == _get_releases(repositories, repository_name)
    IN  IF repo_releases.kind # "ok" THEN ErrorResponse(repo_releases)
        ELSE IF repo_releases.value = EmptyDict
        THEN ErrorResponse(Raised("TypeError", <<>>))
        ELSE Response(200,
                      [i \in 1..Len(repo_releases.value) |->
                          [domain |-> request_domain,
                           endpoint |-> <<"download", repository_name,
                                          repo_releases.value[i].key>>,
                           name |-> repo_releases.value[i].key]])

\* ResponseStream(tarball.iter_content(1024)).read(): the bytes of the
\* upstream response, named here by the URL they come from.
StreamRead(asset_url) == <<asset_url>>

\* dispatch_download
dispatch_download(repositories, repository_name, release_name, auth) ==
    LET repo_releases == _get_releases(repositories, repository_name)
        wanted_release == Lookup(repo_releases.value, release_name)
        asset_url == _find_release_download_link(wanted_release, auth)
    IN  IF repo_releases.kind # "ok" THEN ErrorResponse(repo_releases)
        ELSE IF repo_releases.value = EmptyDict THEN ErrorResponse(Raised("NotFound", <<>>))
        ELSE IF ~HasKey(repo_releases.value, release_name)
        THEN ErrorResponse(Raised("KeyError", <<>>))
        ELSE IF asset_url.kind # "ok" THEN ErrorResponse(asset_url)
        ELSE IF ApiAssetStatus(asset_url.value[1]) # 200
        THEN ErrorResponse(Raised("NotFound", <<>>))
        ELSE Response(200, StreamRead(asset_url.value[1]))

\* The asset URL dispatch_download hands to requests.get, if it gets there.
DownloadAssetUrl(repositories, repository_name, release_name, auth) ==
    LET repo_releases == _get_releases(repositories, repository_name)
        asset_url == _find_release_download_link(
                         Lookup(repo_releases.value, release_name), auth)
    IN  IF /\ repo_releases.kind = "ok"
           /\ HasKey(repo_releases.value, release_name)
           /\ asset_url.kind = "ok"
        THEN asset_url.value
        ELSE <<>>

\* ------------------------------------------------------------- the cache
\* FileSystemCache: the entry under CACHE_KEY, with the time it expires at.
NoEntry == [present |-> FALSE, value |-> <<>>, expires |-> 0]

\* _cache.set(CACHE_KEY, value) at time `time`.
CacheSet(value, time) ==
    [present |-> TRUE, value |-> value, expires |-> time + default_timeout]

\* if b'purge_cache' in request.query_string: self._cache.delete(CACHE_KEY)
CachePurge(entry, purge) == IF purge THEN NoEntry ELSE entry

\* value = {key: repo._json_data for key, repo in data.items()}
Snapshot(data) == [i \in 1..Len(data) |-> [key |-> data[i].key, value |-> data[i].value.json]]

\* A variant that stores whatever the resolver ended with.
CachePopulateAlways(entry, data, time) == CacheSet(Snapshot(data.value), time)

\* Lines 55-57: the mapping the resolver returned is stored; a resolver that
\* raises leaves line 57 unreached and the entry as it is.
CachePopulate(entry, data, time) ==
    IF data.kind = "ok" THEN CacheSet(Snapshot(data.value), time) ELSE entry

\* A variant whose entries never expire.
CacheLiveForever(entry, time) == entry.present

\* _cache.get(CACHE_KEY) at time `time` returns the value of a live entry.
CacheLive(entry, time) == entry.present /\ entry.expires >= time

\* {key: repos.ShortRepository(json, self.github_api.session) for ...}
Rehydrate(value, session) ==
    [i \in 1..Len(value) |->
        [key |-> value[i].key, value |-> ShortRepository(value[i].value, session)]]

\* ------------------------------------------------------------- requests
Path(endpoint, repository_name, release_name) ==
    [endpoint |-> endpoint, repository_name |-> repository_name,
     release_name |-> release_name]

Authorizations ==
    { NoAuthorization,
      Authorization(<<" ">>, <<"p">>),
      Authorization(<<"a">>, <<"p">>),
      Authorization(<<"t", " ">>, <<" ">>),
      Authorization(<<"a">>, <<>>) }

Paths ==
    { Path("index", <<>>, ""), Path("nomatch", <<>>, "") }
    \cup { Path("repository", n, "") :
             n \in {<<"a", "-", "b">>, <<"Z">>, <<"n">>} }
    \cup { Path("download", <<"a", "-", "b">>, r) : r \in {"v1", "v2", "v9"} }
    \cup { Path("download", <<"Z">>, "v1") }

\* The requests a client may send.
Requests == [authorization : Authorizations, purge : BOOLEAN, path : Paths]

\* The requests of the runs in which threads overlap.
OverlappingRequests ==
    [authorization : {Authorization(<<"a">>, <<"p">>), Authorization(<<"t", " ">>, <<" ">>)},
     purge : BOOLEAN,
     path : {Path("index", <<>>, "")}]
    \cup {[authorization |-> Authorization(<<"t", " ">>, <<" ">>), purge |-> FALSE,
           path |-> Path("download", <<"a", "_", "b">>, "v1")]}

NoRequest == [authorization |-> NoAuthorization, purge |-> FALSE,
              path |-> Path("none", <<>>, "")]

\* The releases a repository may hold, and the lists repository.releases()
\* may return for it.
Tags == {"v1", "v2", "v3"}
ReleaseChoices == {Release(tag, created, "r", <<>>) : tag \in Tags, created \in 1..MaxCreated}
Listings == UNION {[1..n -> ReleaseChoices] : n \in 0..MaxReleases}

\* The repositories that exist upstream, by run.
Worlds == {{}, {3}, {4}, {1, 2}, {1, 3}, {1, 4}, {2, 5, 6, 7}}
OverlappingWorlds == {{2, 6}}

\* ------------------------------------------------------------- the state
Threads == 1..NumThreads

VARIABLES
    _auth,            \* self._auth
    github_api,       \* self.github_api: the session, named by its credential
    current_user,     \* self.current_user: the login, or NoUser
    _request_domain,  \* self._request_domain
    _cache,           \* the entry of self._cache under CACHE_KEY
    now,              \* time(), in seconds
    upstream,         \* the repositories that exist on GitHub
    pc,               \* where each thread is in __call__
    request,          \* the request each thread serves
    repositories,     \* what self.repositories returned to each thread
    collected,        \* the tuple `result` of the resolver each thread ran
    outbound,         \* the asset URLs each thread fetched
    response,         \* what each thread's request ends with
    did,              \* what each thread has done for its request
    calls,            \* the requests received so far
    listing,          \* what repository.releases() returns, for _get_releases alone
    repo_releases     \* what _get_releases built from `listing`

vars == <<_auth, github_api, current_user, _request_domain, _cache, now, upstream,
          pc, request, repositories, collected, outbound, response, did, calls,
          listing, repo_releases>>

shared == <<_auth, github_api, current_user, _request_domain>>
locals == <<repositories, collected, outbound, response>>
environment == <<now, upstream, calls, listing, repo_releases>>

\* _get_releases has not run.
NotCalled == Raised("NotCalled", <<>>)

InitIn(worlds) ==
    /\ _auth = NoAuth
    /\ github_api = NoAuth
    /\ current_user = NoUser
    /\ _request_domain = _get_request_domain(NoAuth)
    /\ _cache = NoEntry
    /\ now = 0
    /\ upstream \in worlds
    /\ pc = [t \in Threads |-> "idle"]
    /\ request = [t \in Threads |-> NoRequest]
    /\ repositories = [t \in Threads |-> EmptyDict]
    /\ collected = [t \in Threads |-> <<>>]
    /\ outbound = [t \in Threads |-> <<>>]
    /\ response = [t \in Threads |-> NoResponse]
    /\ did = [t \in Threads |-> {}]
    /\ calls = 0
    /\ repo_releases = NotCalled

\* A thread's request ends with `r`.
Finish(t, r) ==
    /\ response' = [response EXCEPT ![t] = r]
    /\ pc' = [pc EXCEPT ![t] = "done"]

\* __call__, lines 92-95: the request arrives, and purge_cache in its query
\* string deletes the cache entry.
Call(t, r) ==
    /\ pc[t] = "idle"
    /\ request' = [request EXCEPT ![t] = r]
    /\ _cache' = CachePurge(_cache, r.purge)
    /\ did' = [did EXCEPT ![t] = IF r.purge THEN {"purge"} ELSE {}]
    /\ pc' = [pc EXCEPT ![t] = "get_authorization"]
    /\ UNCHANGED <<shared, now, upstream, locals, listing, repo_releases>>

\* _get_authorization, line 98
GetAuthorization(t) ==
    /\ pc[t] = "get_authorization"
    /\ LET auth == _get_authorization(request[t].authorization)
       IN  IF auth = NoAuth
           THEN /\ Finish(t, ErrorResponse(Raised("Unauthorized", <<>>)))
                /\ UNCHANGED _auth
           ELSE /\ _auth' = auth
                /\ pc' = [pc EXCEPT ![t] = "authorize_github"]
                /\ UNCHANGED response
    /\ UNCHANGED <<github_api, current_user, _request_domain, _cache, environment,
                   request, repositories, collected, outbound, did>>

\* What github_api.me() may end with: the login, AuthenticationFailed, or None.
MeOutcomes(api) ==
    IF LoginOf(api) # NoUser THEN {LoginOf(api)} ELSE {"AuthenticationFailed", NoUser}

\* _authorize_github, line 99
AuthorizeGithub(t) ==
    /\ pc[t] = "authorize_github"
    /\ github_api' = _auth
    /\ did' = [did EXCEPT ![t] = @ \cup {"me"}]
    /\ \E me \in MeOutcomes(_auth) :
          /\ current_user' = IF me = "AuthenticationFailed" THEN current_user ELSE me
          /\ IF me = "AuthenticationFailed" \/ current_user' = NoUser
             THEN Finish(t, ErrorResponse(Raised("Forbidden", <<>>)))
             ELSE /\ pc' = [pc EXCEPT ![t] = "get_request_domain"]
                  /\ UNCHANGED response
    /\ UNCHANGED <<_auth, _request_domain, _cache, environment, request,
                   repositories, collected, outbound>>

\* _get_request_domain and the URL match, lines 100-103
GetRequestDomain(t) ==
    /\ pc[t] = "get_request_domain"
    /\ _request_domain' = _get_request_domain(_auth)
    /\ IF request[t].path.endpoint = "nomatch"
       THEN /\ Finish(t, ErrorResponse(Raised("NotFound", <<>>)))
            /\ UNCHANGED did
       ELSE /\ pc' = [pc EXCEPT ![t] = "repositories"]
            /\ did' = [did EXCEPT ![t] = @ \cup {"dispatch"}]
            /\ UNCHANGED response
    /\ UNCHANGED <<_auth, github_api, current_user, _cache, environment, request,
                   repositories, collected, outbound>>

\* The repositories property, lines 52-54 and 60: the cache is read; a live
\* entry is rehydrated with the session of self.github_api.
RepositoriesGet(t) ==
    /\ pc[t] = "repositories"
    /\ IF CacheLive(_cache, now)
       THEN /\ repositories' = [repositories EXCEPT ![t] = Rehydrate(_cache.value, github_api)]
            /\ did' = [did EXCEPT ![t] = @ \cup {"hit"}]
            /\ pc' = [pc EXCEPT ![t] = "dispatch"]
            /\ UNCHANGED _cache
       ELSE /\ _cache' = NoEntry
            /\ pc' = [pc EXCEPT ![t] = "resolve"]
            /\ UNCHANGED <<repositories, did>>
    /\ UNCHANGED <<shared, environment, request, collected, outbound, response>>

\* The repositories property, lines 55-58: the resolver runs and its mapping
\* is stored; `fault` is the upstream call that fails, if any.
RepositoriesResolve(t, fault) ==
    /\ pc[t] = "resolve"
    /\ LET data == IF current_user = NoUser
                   THEN Raised("AttributeError", <<>>)
                   ELSE get_installable_repositories(github_api, current_user,
                                                     ConfiguredIdentities, upstream, fault)
           result == IF current_user = NoUser THEN data
                     ELSE CollectRepositories(github_api, current_user,
                                              ConfiguredIdentities, upstream, fault)
       IN  /\ collected' = [collected EXCEPT ![t] = result.value]
           /\ _cache' = CachePopulate(_cache, data, now)
           /\ IF data.kind = "ok"
              THEN /\ repositories' = [repositories EXCEPT ![t] = data.value]
                   /\ did' = [did EXCEPT ![t] = @ \cup {"resolve", "store"}]
                   /\ pc' = [pc EXCEPT ![t] = "dispatch"]
                   /\ UNCHANGED response
              ELSE /\ Finish(t, ErrorResponse(data))
                   /\ did' = [did EXCEPT ![t] = @ \cup {"resolve"}]
                   /\ UNCHANGED repositories
    /\ UNCHANGED <<shared, environment, request, outbound>>

\* dispatch_index, dispatch_repository or dispatch_download, after the
\* repositories property has returned.
Dispatch(t) ==
    /\ pc[t] = "dispatch"
    /\ LET path == request[t].path
       IN  /\ Finish(t,
                CASE path.endpoint = "index" ->
                         dispatch_index(repositories[t], _request_domain)
                  [] path.endpoint = "repository" ->
                         dispatch_repository(repositories[t], path.repository_name,
                                             _request_domain)
                  [] path.endpoint = "download" ->
                         dispatch_download(repositories[t], path.repository_name,
                                           path.release_name, _auth))
           /\ outbound' = [outbound EXCEPT ![t] =
                IF path.endpoint = "download"
                THEN DownloadAssetUrl(repositories[t], path.repository_name,
                                      path.release_name, _auth)
                ELSE <<>>]
    /\ UNCHANGED <<shared, _cache, environment, request, repositories, collected, did>>

\* return response(environ, start_response), line 113: the thread is free.
Return(t) ==
    /\ pc[t] = "done"
    /\ pc' = [pc EXCEPT ![t] = "idle"]
    /\ request' = [request EXCEPT ![t] = NoRequest]
    /\ repositories' = [repositories EXCEPT ![t] = EmptyDict]
    /\ collected' = [collected EXCEPT ![t] = <<>>]
    /\ outbound' = [outbound EXCEPT ![t] = <<>>]
    /\ response' = [response EXCEPT ![t] = NoResponse]
    /\ did' = [did EXCEPT ![t] = {}]
    /\ UNCHANGED <<shared, _cache, environment>>

\* Time passes.
Tick ==
    /\ now + TickStep <= MaxTime
    /\ now' = now + TickStep
    /\ UNCHANGED <<shared, _cache, upstream, calls, pc, request, locals, did,
                   listing, repo_releases>>

\* One step of thread t's request.
Step(t) ==
    \/ GetAuthorization(t)
    \/ AuthorizeGithub(t)
    \/ GetRequestDomain(t)
    \/ RepositoriesGet(t)
    \/ \E fault \in Faults : RepositoriesResolve(t, fault)
    \/ Dispatch(t)
    \/ Return(t)

\* The application object called by the threads of a threaded WSGI server.
Init == InitIn(OverlappingWorlds) /\ listing = <<>>

Next ==
    \/ \E t \in Threads : \E r \in OverlappingRequests :
          calls < MaxCalls /\ Call(t, r) /\ calls' = calls + 1
    \/ \E t \in Threads : Step(t)

Spec == Init /\ [][Next]_vars

\* The application object called for one request at a time.
InitSeq == InitIn(Worlds) /\ listing = <<>>

NextSeq ==
    \/ \E r \in Requests : Call(1, r) /\ UNCHANGED calls
    \/ Step(1)
    \/ Tick

SpecSeq == InitSeq /\ [][NextSeq]_vars

\* _get_releases, lines 245-249, on the releases of one repository.
GetReleases ==
    /\ repo_releases = NotCalled
    /\ repo_releases' = Returned(BuildReleases(listing))
    /\ UNCHANGED <<shared, _cache, now, upstream, calls, pc, request, locals, did,
                   listing>>

InitReleases == InitIn({{}}) /\ listing \in Listings

NextReleases == GetReleases

SpecReleases == InitReleases /\ [][NextReleases]_vars

\* ------------------------------------------------------------ properties
\* The request of thread t got as far as its dispatch method.
Dispatched(t) == "hit" \in did[t] \/ "store" \in did[t]

\* Two repositories of the tuple carry one short name and different full names.
Clash(result, i, j) ==
    /\ result[i].json.name = result[j].json.name
    /\ FullName(result[i].json) # FullName(result[j].json)

HasClash(result) == \E i, j \in 1..Len(result) : Clash(result, i, j)

\* The description names, for a conflicting short name, every full name that
\* carries it.
NamesAll(description, result, name) ==
    \E k \in 1..Len(description) :
        /\ description[k].name = name
        /\ {description[k].locations[j] : j \in 1..Len(description[k].locations)}
           = {FullName(result[i].json) : i \in {i \in 1..Len(result) : result[i].json.name = name}}

\* C1: when two repositories with different full names share a short name
\* among the collected results, the request that ran the resolver ends with
\* the ConflictingRepositoriesError (503) whose description names, for every
\* conflicting short name, the full names of all repositories that carry it;
\* the request got no mapping and stored none.
C1_ConflictFails ==
    \A t \in Threads :
        HasClash(collected[t]) =>
            /\ pc[t] = "done"
            /\ response[t].status = 503
            /\ response[t].exception = ""
            /\ \A i, j \in 1..Len(collected[t]) :
                   Clash(collected[t], i, j) =>
                       NamesAll(response[t].body, collected[t], collected[t][i].json.name)
            /\ repositories[t] = EmptyDict
            /\ "store" \notin did[t]

\* C1 witness: a request whose resolver collected a/a-b and o/a-b has ended.
C1_Witness ==
    \E t \in Threads :
        /\ pc[t] = "done"
        /\ \E i, j \in 1..Len(collected[t]) : Clash(collected[t], i, j)

\* The Basic-Auth username is absent, or holds nothing but whitespace.
NoUsername(r) ==
    \/ ~r.authorization.present
    \/ \A i \in 1..Len(r.authorization.username) : r.authorization.username[i] = " "

\* The Basic-Auth password is absent, or holds nothing but whitespace.
NoPassword(r) ==
    \/ ~r.authorization.present
    \/ \A i \in 1..Len(r.authorization.password) : r.authorization.password[i] = " "

\* C9: a request whose username is absent or empty after stripping ends, as
\* soon as it is past _get_authorization, with 401 and the challenge
\* WWW-Authenticate: Basic realm="Simple index"; it made no upstream call,
\* ran no resolver and no dispatch method.
C9_Unauthorized ==
    \A t \in Threads :
        (pc[t] \notin {"idle", "get_authorization"} /\ NoUsername(request[t])) =>
            /\ pc[t] = "done"
            /\ response[t].status = 401
            /\ response[t].www_authenticate = "Basic realm=\"Simple index\""
            /\ response[t].exception = ""
            /\ did[t] \subseteq {"purge"}
            /\ repositories[t] = EmptyDict
            /\ collected[t] = <<>>
            /\ outbound[t] = <<>>

\* C9 witness: a request with a username of one blank has ended.
C9_Witness ==
    \E t \in Threads :
        /\ pc[t] = "done"
        /\ request[t].authorization.present
        /\ request[t].authorization.username = <<" ">>

\* The characters of s that are no blanks (the names of the model hold no
\* inner blanks).
NoBlanks(s) == SelectSeq(s, LAMBDA c : c # " ")

\* C10: for a request with a non-empty username that is past
\* _get_authorization, the credential is {username, password} exactly when
\* the password is present and non-empty (after stripping), and
\* {token: username} otherwise; the access_token of every asset URL the
\* request fetches is the password in the first case, the token in the second.
C10_Credential ==
    \A t \in Threads :
        (pc[t] \notin {"idle", "get_authorization"} /\ ~NoUsername(request[t])) =>
            LET username == NoBlanks(request[t].authorization.username)
                password == NoBlanks(request[t].authorization.password)
            IN  /\ ~NoPassword(request[t]) =>
                       /\ _auth = BasicAuth(username, password)
                       /\ \A k \in 1..Len(outbound[t]) :
                              outbound[t][k].access_token = password
                /\ NoPassword(request[t]) =>
                       /\ _auth = TokenAuth(username)
                       /\ \A k \in 1..Len(outbound[t]) :
                              outbound[t][k].access_token = username

\* C10 witness: a request that sent its token as the username, with a blank
\* password, has fetched an asset.
C10_Witness ==
    \E t \in Threads :
        /\ pc[t] = "done"
        /\ request[t].authorization.username = <<"t", " ">>
        /\ NoPassword(request[t])
        /\ outbound[t] # <<>>

\* The credential of the request thread t serves.
OwnAuth(t) == _get_authorization(request[t].authorization)

\* C2: when requests with different credentials overlap on one application
\* object, the credential-derived values of a finished request are its own:
\* the session its repository handles are bound to, the user:password or
\* token part of the links it rendered, and the access_token of the asset URL
\* it fetched.
C2_OwnCredentialOnly ==
    \A t \in Threads :
        pc[t] = "done" =>
            /\ \A i \in 1..Len(repositories[t]) :
                   repositories[t][i].value.session = OwnAuth(t)
            /\ (response[t].status = 200 /\ request[t].path.endpoint \in {"index", "repository"}) =>
                   \A k \in 1..Len(response[t].body) :
                       response[t].body[k].domain = _get_request_domain(OwnAuth(t))
            /\ \A k \in 1..Len(outbound[t]) :
                   outbound[t][k].access_token = AccessToken(OwnAuth(t))

\* C3: a request that carries purge_cache never returns a cached snapshot:
\* whenever it has a mapping, its own resolver run produced it, whatever other
\* requests do between its eviction step and its lookup.
C3_PurgeAlwaysResolves ==
    \A t \in Threads :
        request[t].purge =>
            /\ "hit" \notin did[t]
            /\ pc[t] = "dispatch" => "resolve" \in did[t]

\* C4: a lookup that finds the snapshot stored at T = expires - 900 returns it,
\* rehydrated, without running the resolver when now < T + 900, and goes on
\* to run the resolver when now > T + 900; the mapping the resolver returns is
\* stored as the new snapshot, expiring 900 seconds after the current time.
C4_TtlWindow ==
    [][\A t \in Threads :
          /\ (pc[t] = "repositories" /\ pc'[t] # "repositories" /\ _cache.present) =>
                 /\ now < (_cache.expires - 900) + 900 =>
                        /\ pc'[t] = "dispatch"
                        /\ repositories'[t] = Rehydrate(_cache.value, github_api)
                        /\ _cache' = _cache
                        /\ "resolve" \notin did'[t]
                 /\ now > (_cache.expires - 900) + 900 => pc'[t] = "resolve"
          /\ (pc[t] = "resolve" /\ pc'[t] = "dispatch") =>
                 /\ "resolve" \in did'[t]
                 /\ _cache'.present
                 /\ _cache'.expires = now + 900
                 /\ _cache'.value = Snapshot(repositories'[t])]_vars

\* C4 witness: a request was served the snapshot at a time after it was
\* stored and before it expires.
C4_Witness ==
    \E t \in Threads :
        /\ pc[t] = "dispatch"
        /\ "hit" \in did[t]
        /\ _cache.present
        /\ now > _cache.expires - 900
        /\ now < _cache.expires

\* C5: a request whose resolver run failed ends with an HTTP error response
\* (BadRequest for an upstream error, the conflict error otherwise); no raw
\* upstream exception leaves get_installable_repositories.
C5_UpstreamErrorIsBadRequest ==
    \A t \in Threads :
        (pc[t] = "done" /\ "resolve" \in did[t] /\ "store" \notin did[t]) =>
            /\ response[t].exception = ""
            /\ response[t].status \in {400, 503}

\* The tag -> release dict the request of thread t works with.
ReleasesOf(t) == _get_releases(repositories[t], request[t].path.repository_name)

\* C6: a download request for an existing repository that has releases, none
\* of them tagged with the requested name, ends with 404 NotFound and not
\* with an untranslated error.
C6_UnknownTagIsNotFound ==
    \A t \in Threads :
        ( /\ pc[t] = "done"
          /\ Dispatched(t)
          /\ request[t].path.endpoint = "download"
          /\ ReleasesOf(t).kind = "ok"
          /\ ReleasesOf(t).value # EmptyDict
          /\ \A k \in 1..Len(ReleasesOf(t).value) :
                 ReleasesOf(t).value[k].value.tag_name # request[t].path.release_name ) =>
            /\ response[t].status = 404
            /\ response[t].exception = ""

\* C7: the repository picked for a requested name is the one stored under
\* exactly that key when the mapping has the key; otherwise the one of a key
\* that equals the name once its '_' are replaced by '-'; otherwise the
\* lookup fails with NotFound.
C7_ExactMatchFirst ==
    \A t \in Threads :
        ( /\ pc[t] = "done"
          /\ Dispatched(t)
          /\ request[t].path.endpoint \in {"repository", "download"} ) =>
            LET name == request[t].path.repository_name
                found == FindRepository(repositories[t], name)
                aliased == {i \in 1..Len(repositories[t]) :
                               ReplaceUnderscores(repositories[t][i].key) = name}
            IN  IF HasKey(repositories[t], name)
                THEN found = Returned(<<Lookup(repositories[t], name)>>)
                ELSE IF aliased # {}
                THEN /\ found.kind = "ok"
                     /\ \E i \in aliased : found.value[1] = repositories[t][i].value
                ELSE found.kind = "NotFound"

\* C8: a repository-page request for an existing repository without releases
\* ends with a successful response that carries the 'no releases' message.
C8_NoReleasesMessage ==
    \A t \in Threads :
        ( /\ pc[t] = "done"
          /\ Dispatched(t)
          /\ request[t].path.endpoint = "repository"
          /\ ReleasesOf(t).kind = "ok"
          /\ ReleasesOf(t).value = EmptyDict ) =>
            /\ response[t].status = 200
            /\ response[t].exception = ""
            /\ response[t].body = <<"No releases available for this repository">>

\* No two repositories of the tuple carry one short name.
NoSharedName(result) ==
    \A i, j \in 1..Len(result) : i # j => result[i].json.name # result[j].json.name

\* The configured identities that are neither the user of the session nor
\* one of the user's organizations.
OutsideIdentities(api) ==
    {ConfiguredIdentities[k] : k \in 1..Len(ConfiguredIdentities)}
    \ ({User(LoginOf(api))}
        \cup {Organization(OrganizationsOf(LoginOf(api))[k]) :
                 k \in 1..Len(OrganizationsOf(LoginOf(api)))})

\* What upstream holds for a session: the repositories of the privileged
\* listing that have the marker file, and for every outside identity the
\* repositories of its scoped search that the identity owns.
Reachable(api, world) ==
    LET listed == ApiRepositories(world, LoginOf(api))
        Searched(id) == ApiSearchCodeScope(world, LoginOf(api), id.name)
    IN  {listed[i] : i \in {i \in 1..Len(listed) : listed[i].setup}}
        \cup UNION { {Searched(id)[i] :
                         i \in {i \in 1..Len(Searched(id)) :
                                   Searched(id)[i].owner = id.name}} :
                     id \in OutsideIdentities(api) }

AllDistinct(releases) ==
    \A i, j \in 1..Len(releases) :
        i # j => /\ releases[i].tag_name # releases[j].tag_name
                 /\ releases[i].created_at # releases[j].created_at

\* C12: whatever the order in which upstream returns the releases of a
\* repository, the dict _get_releases builds has one key per tag, each with a
\* release of that tag whose creation time is the latest among the releases
\* of the tag; when tags and creation times are pairwise distinct the keys
\* are listed in ascending order of creation time.
C12_ReleasesByCreation ==
    repo_releases.kind = "ok" =>
        LET d == repo_releases.value
        IN  /\ Keys(d) = {listing[k].tag_name : k \in 1..Len(listing)}
            /\ \A i, j \in 1..Len(d) : i # j => d[i].key # d[j].key
            /\ \A i \in 1..Len(d) :
                   /\ d[i].value.tag_name = d[i].key
                   /\ \E k \in 1..Len(listing) : listing[k] = d[i].value
                   /\ \A k \in 1..Len(listing) :
                          listing[k].tag_name = d[i].key =>
                              listing[k].created_at <= d[i].value.created_at
            /\ AllDistinct(listing) =>
                   /\ Len(d) = Len(listing)
                   /\ \A i, j \in 1..Len(d) :
                          i < j => d[i].value.created_at < d[j].value.created_at

\* C12 witness: _get_releases has run on three releases that upstream
\* returned newest first.
C12_Witness ==
    /\ repo_releases.kind = "ok"
    /\ Len(listing) = 3
    /\ AllDistinct(listing)
    /\ listing[1].created_at > listing[2].created_at
    /\ listing[2].created_at > listing[3].created_at

\* C13: a resolver run that fails on a cache miss writes nothing: the entry
\* is absent after the failing step as it was before it, and a lookup that
\* finds no entry goes on to run the resolver.
C13_FailedResolveStoresNothing ==
    [][\A t \in Threads :
          /\ (pc[t] = "resolve" /\ pc'[t] = "done") =>
                 /\ "store" \notin did'[t]
                 /\ _cache' = _cache
                 /\ ~_cache'.present
          /\ (pc[t] = "repositories" /\ pc'[t] # "repositories" /\ ~_cache.present) =>
                 pc'[t] = "resolve"]_vars

\* C13 witness: a request whose resolver run raised the conflict error has
\* ended and the cache holds no entry.
C13_Witness ==
    \E t \in Threads :
        /\ pc[t] = "done"
        /\ "resolve" \in did[t]
        /\ response[t].status = 503
        /\ ~_cache.present

\* C14: a download request whose release exists ends, when the release has
\* no asset named pypi.tar.gz, with 404 NotFound whose message holds the
\* filename pypi.tar.gz and the name of the release, and fetches nothing;
\* when the release has such assets the request fetches the first of them in
\* listing order, and no other.
C14_AssetLookup ==
    \A t \in Threads :
        ( /\ pc[t] = "done"
          /\ Dispatched(t)
          /\ request[t].path.endpoint = "download"
          /\ ReleasesOf(t).kind = "ok"
          /\ HasKey(ReleasesOf(t).value, request[t].path.release_name) ) =>
            LET wanted == Lookup(ReleasesOf(t).value, request[t].path.release_name)
                named == {i \in 1..Len(wanted.assets) :
                            wanted.assets[i].name = "pypi.tar.gz"}
                first == CHOOSE i \in named : \A j \in named : i <= j
                message == {response[t].body[k] : k \in 1..Len(response[t].body)}
            IN  IF named = {}
                THEN /\ response[t].status = 404
                     /\ response[t].exception = ""
                     /\ "pypi.tar.gz" \in message
                     /\ wanted.name \in message
                     /\ outbound[t] = <<>>
                ELSE /\ Len(outbound[t]) = 1
                     /\ outbound[t][1].download_url = wanted.assets[first].download_url

\* C14 witness: a download request for the release named "second", which
\* holds other.zip alone, has ended.
C14_Witness ==
    \E t \in Threads :
        /\ pc[t] = "done"
        /\ Dispatched(t)
        /\ request[t].path.endpoint = "download"
        /\ ReleasesOf(t).kind = "ok"
        /\ HasKey(ReleasesOf(t).value, request[t].path.release_name)
        /\ Lookup(ReleasesOf(t).value, request[t].path.release_name).name = "second"

\* One repository (one full name) occurs twice in the tuple.
Repeated(result) ==
    \E i, j \in 1..Len(result) :
        i # j /\ FullName(result[i].json) = FullName(result[j].json)

\* C15: the conflict error is raised only when two repositories with
\* different full names share a short name; a repository that the privileged
\* listing and the scoped search of an outside identity both return is no
\* conflict: the resolver returns a mapping that holds it once.
C15_ConflictNeedsDistinctRepositories ==
    \A t \in Threads :
        /\ ("resolve" \in did[t] /\ response[t].status = 503) => HasClash(collected[t])
        /\ (Repeated(collected[t]) /\ ~HasClash(collected[t])) =>
               /\ "store" \in did[t]
               /\ \A i, j \in 1..Len(repositories[t]) :
                      i # j => FullName(repositories[t][i].value.json)
                               # FullName(repositories[t][j].value.json)

\* C16: every repository of the mapping the resolver returned is owned by
\* one of the configured identities.
C16_OnlyConfiguredOwners ==
    \A t \in Threads :
        "store" \in did[t] =>
            \A i \in 1..Len(repositories[t]) :
                \E k \in 1..Len(ConfiguredIdentities) :
                    repositories[t][i].value.json.owner = ConfiguredIdentities[k].name

\* C17: the repository names a request gets from the repositories lookup
\* are those that upstream holds for the request's own credential, whoever
\* populated the cache entry.
C17_OwnVisibilityOnly ==
    \A t \in Threads :
        (Dispatched(t) /\ pc[t] \in {"dispatch", "done"}) =>
            Keys(repositories[t]) = {r.name : r \in Reachable(OwnAuth(t), upstream)}

\* The request ends with Unauthorized (no username) or with Forbidden
\* (upstream does not know the credential).
Denied(r) == NoUsername(r) \/ LoginOf(_get_authorization(r.authorization)) = NoUser

\* C18: no step of a request that ends with Unauthorized or Forbidden
\* changes the cache entry, with or without the purge_cache marker.
C18_DeniedRequestKeepsCache ==
    [][\A t \in Threads :
          ( /\ pc[t] \in {"idle", "get_authorization", "authorize_github"}
            /\ pc'[t] # pc[t]
            /\ Denied(request'[t]) ) => _cache' = _cache]_vars

====
